---- MODULE Spec2Model ----
(***************************************************************************)
(* Bounded, order-sensitive data structures of python-forts:               *)
(*   LRUCache, TaskScheduler, sliding_window_max                           *)
(*       (data-structure/practical_examples.py)                            *)
(*   KSmallest (data-structure/heapq_priority_queues.py)                   *)
(* and of DataLab: the shared counters of concurrency/threading_basics.py, *)
(* the queue of concurrency/multiprocessing_basics.py, and                 *)
(* calculate_average of analysis/statistics.py.                            *)
(* Each structure is independent of the others and has a specification of  *)
(* its own (SpecLRU, SpecSched, SpecDrain, SpecTrace, SpecKS, SpecSW); the *)
(* variables                                                               *)
(* of the other structures stay at their constructed values.               *)
(***************************************************************************)
EXTENDS Integers, Sequences, FiniteSets, TLC

VARIABLES
    \* LRUCache
    capacity,        \* self.capacity
    cache,           \* self.cache: dict key -> value
    access_order,    \* self.access_order: deque of keys, oldest first
    ctor_capacity,   \* history: the capacity given to the constructor
    lru_hist,        \* history: the calls made so far, oldest first
    lru_pre,         \* history: the object's fields before the last call
    \* TaskScheduler
    tasks,           \* self.tasks: list kept as a binary heap by heapq
    task_id,         \* self.task_id: the next sequence number
    sched_last,      \* history: the last call and what it returned
    sched_phase,     \* history: "adding" until the first get_next_task
    sched_added,     \* history (SpecDrain): the entries added, in call order
    sched_drained,   \* history (SpecDrain): the entries popped and the
                     \* descriptions returned, in call order
    \* KSmallest
    ks_k,            \* self.k
    ks_heap,         \* self.heap: list of negated numbers kept as a heap
    ks_seen,         \* history: how often each number has been added
    ks_last,         \* history: the last call and what it returned or raised
    \* sliding_window_max
    nums,            \* the argument nums (Python position p is element p + 1)
    sw_k,            \* the argument k
    window,          \* the deque of positions of nums
    result,          \* the list built up and returned
    sw_i,            \* the loop variable i: the position of the current element
    sw_pc,           \* where the call is: "call", "for", "expire", "shrink",
                     \* "append", "done"
    sw_appended,     \* history: the positions appended to window, in order
    sw_removed,      \* history: the positions removed from window, in order
    \* threading_basics: race_condition_demo and thread_safe_demo
    counter,         \* the global counter
    counter_safe,    \* the global counter_safe
    counter_lock,    \* the global counter_lock: TRUE while it is held
    num_threads,     \* the number of threads the demo starts
    increments_per_thread,  \* the argument n of every thread
    thr_pc,          \* per thread: "new", "for", "acquire", "load", "store",
                     \* "release", "done"
    thr_tmp,         \* per thread: the value read by counter += 1
    thr_left,        \* per thread: the rounds of the for loop still to run
    thr_started,     \* how many threads the main thread has started
    thr_joined,      \* how many threads the main thread has joined
    \* multiprocessing_basics: queue_communication
    queue,           \* the multiprocessing.Queue: the objects put and not yet got
    items,           \* the list handed to the producer
    prod_pc,         \* the producer process: "new", "run", "done"
    prod_i,          \* how many items the producer has put
    cons_pc,         \* the consumer process: "new", "run", "done"
    consumed,        \* history: the items the consumer has printed as consumed
    q_main,          \* the parent process: "start_prod", "start_cons",
                     \* "join_prod", "join_cons", "end"
    \* statistics: calculate_average(data, field)
    avg_data,        \* the argument data: per record, whether it has the
                     \* field and the object stored under it
    avg_i,           \* how many records the for loop has passed
    avg_values,      \* the list values
    avg_pc,          \* where the call is: "call", "for", "done"
    avg_ret,         \* what the call returned: << >> (nothing), or
                     \* <<s, n>> for the float s / n
    avg_exc          \* what the call raised, or None

lru_vars == <<capacity, cache, access_order, ctor_capacity, lru_hist, lru_pre>>

sched_vars == <<tasks, task_id, sched_last, sched_phase, sched_added, sched_drained>>

ks_vars == <<ks_k, ks_heap, ks_seen, ks_last>>

sw_vars == <<nums, sw_k, window, result, sw_i, sw_pc, sw_appended, sw_removed>>

thr_vars == <<counter, counter_safe, counter_lock, num_threads,
              increments_per_thread, thr_pc, thr_tmp, thr_left, thr_started,
              thr_joined>>

\* the structures of data-structure/, and the state of DataLab
ds_vars == <<lru_vars, sched_vars, ks_vars, sw_vars>>

q_vars == <<queue, items, prod_pc, prod_i, cons_pc, consumed, q_main>>

avg_vars == <<avg_data, avg_i, avg_values, avg_pc, avg_ret, avg_exc>>

lab_vars == <<thr_vars, q_vars, avg_vars>>

vars == <<ds_vars, lab_vars>>

(***************************************************************************)
(* Bounds                                                                  *)
(***************************************************************************)
MaxCap == 2          \* LRUCache(capacity) for capacity in 0..MaxCap
MaxOps == 5          \* calls made on one LRUCache

MaxTasks == 4        \* add_task calls made on one TaskScheduler
MaxPriority == 2     \* priorities 1..MaxPriority
MaxK == 3            \* KSmallest(k) for k in 0..MaxK
MaxNum == 9          \* numbers 1..MaxNum are offered to a KSmallest
MaxAdds == 7         \* add calls made on one KSmallest
MaxLen == 5          \* len(nums) for sliding_window_max
MaxVal == 2          \* the elements of nums are in 0..MaxVal
MaxWin == 4          \* window sizes k up to MaxWin
MaxThreads == 2      \* num_threads in 1..MaxThreads
MaxIncr == 2         \* increments_per_thread in 0..MaxIncr
MaxItems == 3        \* len(items) handed to the producer
MaxItem == 2         \* the items are in 1..MaxItem
MaxRecords == 3      \* len(data) for calculate_average
MaxAge == 2          \* the ints stored under the field are in 0..MaxAge

Keys == {"a", "b", "c"}
Values == {"v1", "v2"}
Priorities == 1..MaxPriority
Descriptions == {"X", "Y", "Z"}
Nums == 1..MaxNum

\* demonstrate(), practical_examples.py line 203
DemoNums == <<1, 3, 0 - 1, 0 - 3, 5, 3, 6, 7>>

\* the lists given to sliding_window_max: every list of up to MaxLen elements
\* of 0..MaxVal, and the list of demonstrate()
NumsInputs ==
    UNION {[1..n -> 0..MaxVal] : n \in 0..MaxLen} \cup {DemoNums}

\* the window sizes given to sliding_window_max
KInputs == (0 - 1)..MaxWin

\* Python's None, and the exceptions a deque or dict operation can raise
None == "None"
IndexError == "IndexError"
ValueError == "ValueError"
KeyError == "KeyError"

(***************************************************************************)
(* Sequence helpers                                                        *)
(***************************************************************************)
Range(s) == {s[j] : j \in 1..Len(s)}

Last(s) == s[Len(s)]

\* deque.remove(x): drops the first occurrence of x (x must occur)
DequeRemove(s, x) ==
    LET p == CHOOSE j \in 1..Len(s) : s[j] = x /\ \A h \in 1..(j - 1) : s[h] # x
    IN  SubSeq(s, 1, p - 1) \o SubSeq(s, p + 1, Len(s))

\* dict without one key
DictDel(d, x) == [y \in (DOMAIN d) \ {x} |-> d[y]]

\* dict with d[x] = v
DictSet(d, x, v) == [y \in (DOMAIN d) \cup {x} |-> IF y = x THEN v ELSE d[y]]

EmptyDict == [y \in {} |-> None]

(***************************************************************************)
(* LRUCache                                                                *)
(***************************************************************************)
\* The object's fields as one record
LRUSelf == [capacity |-> capacity, cache |-> cache, access_order |-> access_order]

\* LRUCache.get(key): the fields after the call and what the call returns
\* (ret) or raises (exc)
\* faulty variant: a miss enters the key into access_order
get_miss_touches_order(self, key) ==
    IF key \in DOMAIN self.cache
    THEN [self |-> [self EXCEPT !.access_order =
                       Append(DequeRemove(self.access_order, key), key)],
          ret |-> self.cache[key], exc |-> None]
    ELSE [self |-> [self EXCEPT !.access_order = Append(self.access_order, key)],
          ret |-> None, exc |-> None]

\* faulty variant: a hit takes the key off access_order and does not put it back
get_without_append(self, key) ==
    IF key \in DOMAIN self.cache
    THEN [self |-> [self EXCEPT !.access_order = DequeRemove(self.access_order, key)],
          ret |-> self.cache[key], exc |-> None]
    ELSE [self |-> self, ret |-> None, exc |-> None]

\* faulty variant: a get that leaves access_order alone
get_no_refresh(self, key) ==
    IF key \in DOMAIN self.cache
    THEN [self |-> self, ret |-> self.cache[key], exc |-> None]
    ELSE [self |-> self, ret |-> None, exc |-> None]

get(self, key) ==
    IF key \in DOMAIN self.cache
    THEN IF key \in Range(self.access_order)
         THEN [self |-> [self EXCEPT !.access_order =
                            Append(DequeRemove(self.access_order, key), key)],
               ret |-> self.cache[key], exc |-> None]
         ELSE [self |-> self, ret |-> None, exc |-> ValueError]
    ELSE [self |-> self, ret |-> None, exc |-> None]

\* put, line 43 (and get, line 36): key in self.cache
KeyInCache(self, key) == key \in DOMAIN self.cache

\* put, line 45: len(self.cache) >= self.capacity
\* faulty variant: > in place of >=
AtCapacity_off_by_one(self) == Cardinality(DOMAIN self.cache) > self.capacity

AtCapacity(self) == Cardinality(DOMAIN self.cache) >= self.capacity

\* deque.popleft() on a deque that is not empty: the item returned and the
\* deque left
\* faulty variant: pop() in place of popleft()
popleft_takes_newest(d) == [item |-> Last(d), rest |-> SubSeq(d, 1, Len(d) - 1)]

popleft(d) == [item |-> Head(d), rest |-> Tail(d)]

\* put, lines 49-50: self.cache[key] = value; self.access_order.append(key)
Store(self, key, value) ==
    [self EXCEPT !.cache = DictSet(self.cache, key, value),
                 !.access_order = Append(self.access_order, key)]

\* put, lines 43-44 then 49-50: the key is already cached
\* faulty variant: the key is refreshed, the old value kept
PutExisting_stale_value(self, key, value) ==
    [self |-> [self EXCEPT !.access_order =
                  Append(DequeRemove(self.access_order, key), key)],
     ret |-> None, exc |-> None]

\* faulty variant: line 44 left out
PutExisting_no_remove(self, key, value) ==
    [self |-> Store(self, key, value), ret |-> None, exc |-> None]

PutExisting(self, key, value) ==
    IF key \in Range(self.access_order)
    THEN [self |-> Store([self EXCEPT !.access_order =
                            DequeRemove(self.access_order, key)], key, value),
          ret |-> None, exc |-> None]
    ELSE [self |-> self, ret |-> None, exc |-> ValueError]

\* put, lines 45-47 then 49-50: a new key and the cache is full
PutEvicting(self, key, value) ==
    IF self.access_order = << >>
    THEN [self |-> self, ret |-> None, exc |-> IndexError]
    ELSE LET oldest == popleft(self.access_order).item
             popped == [self EXCEPT !.access_order = popleft(self.access_order).rest]
         IN  IF oldest \in DOMAIN self.cache
             THEN [self |-> Store([popped EXCEPT !.cache = DictDel(self.cache, oldest)],
                                  key, value),
                   ret |-> None, exc |-> None]
             ELSE [self |-> popped, ret |-> None, exc |-> KeyError]

\* put, lines 49-50 alone: a new key and room left
PutFresh(self, key, value) ==
    [self |-> Store(self, key, value), ret |-> None, exc |-> None]

\* LRUCache.put(key, value)
\* faulty variant: the capacity test before the key test
put_capacity_first(self, key, value) ==
    IF AtCapacity(self) THEN PutEvicting(self, key, value)
    ELSE IF KeyInCache(self, key) THEN PutExisting(self, key, value)
    ELSE PutFresh(self, key, value)

put(self, key, value) ==
    IF KeyInCache(self, key) THEN PutExisting(self, key, value)
    ELSE IF AtCapacity(self) THEN PutEvicting(self, key, value)
    ELSE PutFresh(self, key, value)

\* LRUCache(capacity): the constructor takes any capacity, 0 included
LRUInit ==
    /\ capacity \in 0..MaxCap
    /\ cache = EmptyDict
    /\ access_order = << >>
    /\ ctor_capacity = capacity
    /\ lru_hist = << >>
    /\ lru_pre = LRUSelf

LRUApply(out, call) ==
    /\ capacity' = out.self.capacity
    /\ cache' = out.self.cache
    /\ access_order' = out.self.access_order
    /\ lru_hist' = Append(lru_hist, [call EXCEPT !.ret = out.ret, !.exc = out.exc])
    /\ lru_pre' = LRUSelf
    /\ UNCHANGED ctor_capacity

Get ==
    /\ Len(lru_hist) < MaxOps
    /\ \E key \in Keys :
          LRUApply(get(LRUSelf, key),
                   [op |-> "get", key |-> key, value |-> None,
                    hit |-> key \in DOMAIN cache, ret |-> None, exc |-> None])

Put ==
    /\ Len(lru_hist) < MaxOps
    /\ \E key \in Keys, value \in Values :
          LRUApply(put(LRUSelf, key, value),
                   [op |-> "put", key |-> key, value |-> value,
                    hit |-> key \in DOMAIN cache, ret |-> None, exc |-> None])

\* put(key, None): put takes any object as value
PutNone ==
    /\ Len(lru_hist) < MaxOps
    /\ \E key \in Keys :
          LRUApply(put(LRUSelf, key, None),
                   [op |-> "put", key |-> key, value |-> None,
                    hit |-> key \in DOMAIN cache, ret |-> None, exc |-> None])

\* the LRUCache of a specification that is about another structure
LRUIdle ==
    /\ capacity = 1
    /\ cache = EmptyDict
    /\ access_order = << >>
    /\ ctor_capacity = capacity
    /\ lru_hist = << >>
    /\ lru_pre = LRUSelf

(***************************************************************************)
(* heapq, on a list whose Python position pos is element pos + 1 here.     *)
(* Python picks the < of the items' type at run time; here the type of the *)
(* items a heap holds is passed along as ty ("int" or "tuple").            *)
(***************************************************************************)
\* Python's < on str, for the descriptions in use
StrLT(x, y) == <<x, y>> \in {<<"X", "Y">>, <<"X", "Z">>, <<"Y", "Z">>}

\* Python's < on the tuples (priority, task_id, description)
\* faulty variant: priorities alone are compared
TupleLT_priority_only(a, b) == a[1] < b[1]

\* faulty variant: the tuple pushed is (priority, description, task_id)
TupleLT_description_first(a, b) ==
    \/ a[1] < b[1]
    \/ a[1] = b[1] /\ StrLT(a[3], b[3])
    \/ a[1] = b[1] /\ a[3] = b[3] /\ a[2] < b[2]

TupleLT(a, b) ==
    \/ a[1] < b[1]
    \/ a[1] = b[1] /\ a[2] < b[2]
    \/ a[1] = b[1] /\ a[2] = b[2] /\ StrLT(a[3], b[3])

\* Python's < on int
IntLT(a, b) == a < b

\* a < b for two items of type ty
PyLT(ty, a, b) == IF ty = "int" THEN IntLT(a, b) ELSE TupleLT(a, b)

At(heap, pos) == heap[pos + 1]

SetAt(heap, pos, item) == [heap EXCEPT ![pos + 1] = item]

\* heapq._siftdown(heap, startpos, pos), from "while pos > startpos" on
RECURSIVE SiftDownLoop(_, _, _, _, _)
SiftDownLoop(ty, heap, startpos, pos, newitem) ==
    IF pos > startpos
    THEN LET parentpos == (pos - 1) \div 2
             parent == At(heap, parentpos)
         IN  IF PyLT(ty, newitem, parent)
             THEN SiftDownLoop(ty, SetAt(heap, pos, parent), startpos, parentpos, newitem)
             ELSE SetAt(heap, pos, newitem)
    ELSE SetAt(heap, pos, newitem)

siftdown(ty, heap, startpos, pos) ==
    SiftDownLoop(ty, heap, startpos, pos, At(heap, pos))

\* heapq._siftup(heap, pos), from "while childpos < endpos" on
RECURSIVE SiftUpLoop(_, _, _, _, _)
SiftUpLoop(ty, heap, startpos, pos, newitem) ==
    LET endpos == Len(heap)
        leftpos == 2 * pos + 1
        rightpos == leftpos + 1
        childpos == IF rightpos < endpos
                       /\ ~PyLT(ty, At(heap, leftpos), At(heap, rightpos))
                    THEN rightpos ELSE leftpos
    IN  IF leftpos < endpos
        THEN SiftUpLoop(ty, SetAt(heap, pos, At(heap, childpos)), startpos, childpos, newitem)
        ELSE siftdown(ty, SetAt(heap, pos, newitem), startpos, pos)

siftup(ty, heap, pos) == SiftUpLoop(ty, heap, pos, pos, At(heap, pos))

\* heapq.heappush(heap, item): the list afterwards
heappush(ty, heap, item) ==
    siftdown(ty, Append(heap, item), 0, Len(heap))

\* heapq.heappop(heap) on a list that is not empty: the item returned and the
\* list afterwards
\* faulty variant: list.pop() in place of heapq.heappop
heappop_is_list_pop(ty, heap) ==
    [item |-> Last(heap), heap |-> SubSeq(heap, 1, Len(heap) - 1)]

heappop(ty, heap) ==
    LET lastelt == Last(heap)
        rest == SubSeq(heap, 1, Len(heap) - 1)
    IN  IF rest # << >>
        THEN [item |-> rest[1], heap |-> siftup(ty, SetAt(rest, 0, lastelt), 0)]
        ELSE [item |-> lastelt, heap |-> rest]

\* heapq.heapreplace(heap, item) on a list that is not empty
heapreplace(ty, heap, item) ==
    [item |-> heap[1], heap |-> siftup(ty, SetAt(heap, 0, item), 0)]

(***************************************************************************)
(* TaskScheduler                                                           *)
(***************************************************************************)
SchedSelf == [tasks |-> tasks, task_id |-> task_id]

\* TaskScheduler.add_task(priority, description)
\* faulty variant: no sequence number in the tuple pushed
add_task_without_task_id(self, priority, description) ==
    [self |-> [tasks |-> heappush("tuple", self.tasks, <<priority, 0, description>>),
               task_id |-> self.task_id + 1],
     ret |-> None]

\* faulty variant: the sequence number is the queue length, reused after pops
add_task_id_from_len(self, priority, description) ==
    [self |-> [tasks |-> heappush("tuple", self.tasks,
                                  <<priority, Len(self.tasks), description>>),
               task_id |-> self.task_id + 1],
     ret |-> None]

add_task(self, priority, description) ==
    [self |-> [tasks |-> heappush("tuple", self.tasks,
                                  <<priority, self.task_id, description>>),
               task_id |-> self.task_id + 1],
     ret |-> None]

\* TaskScheduler.get_next_task()
\* faulty variant: a pop on an empty scheduler starts the numbering again
get_next_task_resets_counter(self) ==
    IF self.tasks # << >>
    THEN LET popped == heappop("tuple", self.tasks)
         IN  [self |-> [self EXCEPT !.tasks = popped.heap],
              ret |-> popped.item[3], entry |-> popped.item]
    ELSE [self |-> [self EXCEPT !.task_id = 0], ret |-> None, entry |-> << >>]

get_next_task(self) ==
    IF self.tasks # << >>
    THEN LET popped == heappop("tuple", self.tasks)
         IN  [self |-> [self EXCEPT !.tasks = popped.heap],
              ret |-> popped.item[3], entry |-> popped.item]
    ELSE [self |-> self, ret |-> None, entry |-> << >>]

\* TaskScheduler()
SchedInit ==
    /\ tasks = << >>
    /\ task_id = 0
    /\ sched_last = [op |-> "init", ret |-> None, entry |-> << >>]
    /\ sched_phase = "adding"
    /\ sched_added = << >>
    /\ sched_drained = << >>

AddTask ==
    /\ task_id < MaxTasks
    /\ \E priority \in Priorities, description \in Descriptions :
          LET out == add_task(SchedSelf, priority, description)
          IN  /\ tasks' = out.self.tasks
              /\ task_id' = out.self.task_id
              /\ sched_last' = [op |-> "add_task", ret |-> out.ret,
                                entry |-> <<priority, task_id, description>>]
    /\ UNCHANGED <<sched_phase, sched_added, sched_drained>>

GetNextTask ==
    /\ LET out == get_next_task(SchedSelf)
       IN  /\ tasks' = out.self.tasks
           /\ task_id' = out.self.task_id
           /\ sched_last' = [op |-> "get_next_task", ret |-> out.ret,
                             entry |-> out.entry]
    /\ UNCHANGED <<sched_phase, sched_added, sched_drained>>

\* add_task calls first, then get_next_task until the scheduler is empty
DrainAdd ==
    /\ sched_phase = "adding"
    /\ task_id < MaxTasks
    /\ \E priority \in Priorities, description \in Descriptions :
          LET out == add_task(SchedSelf, priority, description)
          IN  /\ tasks' = out.self.tasks
              /\ task_id' = out.self.task_id
              /\ sched_last' = [op |-> "add_task", ret |-> out.ret,
                                entry |-> <<priority, task_id, description>>]
              /\ sched_added' = Append(sched_added, <<priority, task_id, description>>)
    /\ UNCHANGED <<sched_phase, sched_drained>>

DrainGet ==
    /\ tasks # << >>
    /\ LET out == get_next_task(SchedSelf)
       IN  /\ tasks' = out.self.tasks
           /\ task_id' = out.self.task_id
           /\ sched_last' = [op |-> "get_next_task", ret |-> out.ret,
                             entry |-> out.entry]
           /\ sched_drained' = Append(sched_drained, [entry |-> out.entry, ret |-> out.ret])
    /\ sched_phase' = "draining"
    /\ UNCHANGED sched_added

\* add_task and get_next_task in any order, with the successful pops
\* recorded: sched_drained holds the entry taken, the description returned
\* and the value of task_id at the time of the pop.  The description never
\* takes part in a comparison (task_id differs first), so two suffice here.
TraceDescriptions == {"X", "Y"}

TraceAdd ==
    /\ task_id < MaxTasks
    /\ \E priority \in Priorities, description \in TraceDescriptions :
          LET out == add_task(SchedSelf, priority, description)
          IN  /\ tasks' = out.self.tasks
              /\ task_id' = out.self.task_id
    /\ UNCHANGED <<sched_last, sched_phase, sched_added, sched_drained>>

TraceGet ==
    /\ LET out == get_next_task(SchedSelf)
       IN  /\ tasks' = out.self.tasks
           /\ task_id' = out.self.task_id
           /\ sched_drained' =
                 IF out.entry = << >> THEN sched_drained
                 ELSE Append(sched_drained,
                             [entry |-> out.entry, ret |-> out.ret, counter |-> task_id])
    /\ UNCHANGED <<sched_last, sched_phase, sched_added>>

(***************************************************************************)
(* KSmallest                                                               *)
(***************************************************************************)
\* sorted(xs) for a list of int
RECURSIVE sorted(_)
sorted(xs) ==
    IF xs = << >> THEN << >>
    ELSE LET m == CHOOSE j \in 1..Len(xs) : \A h \in 1..Len(xs) : xs[j] <= xs[h]
         IN  <<xs[m]>> \o sorted(SubSeq(xs, 1, m - 1) \o SubSeq(xs, m + 1, Len(xs)))

KSSelf == [k |-> ks_k, heap |-> ks_heap]

\* add, line 136: len(self.heap) < self.k
\* faulty variant: <= in place of <
HasRoom_one_more(self) == Len(self.heap) <= self.k

HasRoom(self) == Len(self.heap) < self.k

\* add, line 138: num < -self.heap[0] (the heap is not empty)
\* faulty variant: the negation left out
BelowLargest_compares_sign(self, num) == num < self.heap[1]

\* faulty variant: at capacity the largest is replaced without comparing
BelowLargest_always(self, num) == TRUE

BelowLargest(self, num) == num < 0 - self.heap[1]

\* KSmallest.add(num)
add(self, num) ==
    IF HasRoom(self)
    THEN [self |-> [self EXCEPT !.heap = heappush("int", self.heap, 0 - num)],
          ret |-> None, exc |-> None]
    ELSE IF self.heap = << >>
    THEN [self |-> self, ret |-> None, exc |-> IndexError]
    ELSE IF BelowLargest(self, num)
    THEN [self |-> [self EXCEPT !.heap = heapreplace("int", self.heap, 0 - num).heap],
          ret |-> None, exc |-> None]
    ELSE [self |-> self, ret |-> None, exc |-> None]

\* KSmallest.get_smallest()
\* faulty variant: sorted() left out
get_smallest_unsorted(self) == [j \in 1..Len(self.heap) |-> 0 - self.heap[j]]

get_smallest(self) == sorted([j \in 1..Len(self.heap) |-> 0 - self.heap[j]])

\* the call as a whole: the comprehension and sorted() build new lists and
\* assign nothing to self
\* faulty variant: the values are read by popping them off self.heap
get_smallest_draining(self) ==
    [self |-> [self EXCEPT !.heap = << >>], ret |-> get_smallest(self), exc |-> None]

get_smallest_call(self) == [self |-> self, ret |-> get_smallest(self), exc |-> None]

\* KSmallest(k)
KSInit ==
    /\ ks_k \in 0..MaxK
    /\ ks_heap = << >>
    /\ ks_seen = [n \in Nums |-> 0]
    /\ ks_last = [op |-> "init", ret |-> None, exc |-> None]

KSIdle ==
    /\ ks_k = 1
    /\ ks_heap = << >>
    /\ ks_seen = [n \in Nums |-> 0]
    /\ ks_last = [op |-> "init", ret |-> None, exc |-> None]

\* the number of add calls made
KSAdded ==
    LET RECURSIVE Sum(_)
        Sum(n) == IF n = 0 THEN 0 ELSE ks_seen[n] + Sum(n - 1)
    IN  Sum(MaxNum)

Add ==
    /\ KSAdded < MaxAdds
    /\ \E num \in Nums :
          LET out == add(KSSelf, num)
          IN  /\ ks_k' = out.self.k
              /\ ks_heap' = out.self.heap
              /\ ks_seen' = [ks_seen EXCEPT ![num] = @ + 1]
              /\ ks_last' = [op |-> "add", ret |-> out.ret, exc |-> out.exc]

GetSmallest ==
    /\ LET out == get_smallest_call(KSSelf)
       IN  /\ ks_k' = out.self.k
           /\ ks_heap' = out.self.heap
           /\ ks_last' = [op |-> "get_smallest", ret |-> out.ret, exc |-> out.exc]
    /\ UNCHANGED ks_seen

(***************************************************************************)
(* sliding_window_max(nums, k)                                             *)
(***************************************************************************)
\* nums[p] for a Python position p
NumAt(p) == nums[p + 1]

\* line 120: window and window[0] <= i - k
\* faulty variant: < in place of <=
Expired_off_by_one(w, i, k) == w # << >> /\ Head(w) < i - k

\* faulty variant: the test for positions that left the window is missing
Expired_never(w, i, k) == FALSE

Expired(w, i, k) == w # << >> /\ Head(w) <= i - k

\* line 124: window and nums[window[-1]] < num
\* faulty variant: > in place of <
Smaller_removes_larger(w, num) == w # << >> /\ NumAt(Last(w)) > num

Smaller(w, num) == w # << >> /\ NumAt(Last(w)) < num

\* line 130: i >= k - 1
\* faulty variant: k in place of k - 1
WindowFull_one_late(i, k) == i >= k

WindowFull(i, k) == i >= k - 1

SWInit ==
    /\ nums \in NumsInputs
    /\ sw_k \in KInputs
    /\ window = << >>
    /\ result = << >>
    /\ sw_i = 0
    /\ sw_pc = "call"
    /\ sw_appended = << >>
    /\ sw_removed = << >>

SWIdle ==
    /\ nums = << >>
    /\ sw_k = 1
    /\ window = << >>
    /\ result = << >>
    /\ sw_i = 0
    /\ sw_pc = "call"
    /\ sw_appended = << >>
    /\ sw_removed = << >>

\* lines 112-116: the early return, or result = [], window = deque()
Call ==
    /\ sw_pc = "call"
    /\ sw_pc' = IF nums = << >> \/ sw_k = 0 THEN "done" ELSE "for"
    /\ window' = << >>
    /\ result' = << >>
    /\ sw_i' = 0
    /\ UNCHANGED <<nums, sw_k, sw_appended, sw_removed>>

\* line 118: the next element, or line 133 when there is none
For ==
    /\ sw_pc = "for"
    /\ sw_pc' = IF sw_i < Len(nums) THEN "expire" ELSE "done"
    /\ UNCHANGED <<nums, sw_k, window, result, sw_i, sw_appended, sw_removed>>

\* lines 120-121: one turn of the first while loop
\* faulty variant: window[0] is read and not taken off the deque
Expire_without_popleft ==
    /\ sw_pc = "expire"
    /\ IF Expired(window, sw_i, sw_k)
       THEN /\ window' = window
            /\ sw_removed' = Append(sw_removed, Head(window))
            /\ sw_pc' = "expire"
       ELSE /\ sw_pc' = "shrink"
            /\ UNCHANGED <<window, sw_removed>>
    /\ UNCHANGED <<nums, sw_k, result, sw_i, sw_appended>>

Expire ==
    /\ sw_pc = "expire"
    /\ IF Expired(window, sw_i, sw_k)
       THEN /\ window' = Tail(window)
            /\ sw_removed' = Append(sw_removed, Head(window))
            /\ sw_pc' = "expire"
       ELSE /\ sw_pc' = "shrink"
            /\ UNCHANGED <<window, sw_removed>>
    /\ UNCHANGED <<nums, sw_k, result, sw_i, sw_appended>>

\* lines 124-125: one turn of the second while loop
Shrink ==
    /\ sw_pc = "shrink"
    /\ IF Smaller(window, NumAt(sw_i))
       THEN /\ window' = SubSeq(window, 1, Len(window) - 1)
            /\ sw_removed' = Append(sw_removed, Last(window))
            /\ sw_pc' = "shrink"
       ELSE /\ sw_pc' = "append"
            /\ UNCHANGED <<window, sw_removed>>
    /\ UNCHANGED <<nums, sw_k, result, sw_i, sw_appended>>

\* lines 127-131: append the position, report once the window is full
AppendAndReport ==
    /\ sw_pc = "append"
    /\ window' = Append(window, sw_i)
    /\ sw_appended' = Append(sw_appended, sw_i)
    /\ result' = IF WindowFull(sw_i, sw_k)
                 THEN Append(result, NumAt(Head(window')))
                 ELSE result
    /\ sw_i' = sw_i + 1
    /\ sw_pc' = "for"
    /\ UNCHANGED <<nums, sw_k, sw_removed>>

(***************************************************************************)
(* threading_basics: several threads add to a shared counter, without a    *)
(* lock (increment_unsafe) and under counter_lock (increment_safe). One    *)
(* step of a thread is one access to shared state; the interpreter may     *)
(* switch threads between any two of them.                                 *)
(***************************************************************************)
Threads == 1..MaxThreads

\* race_condition_demo / thread_safe_demo before the first thread is started:
\* the counter reset to 0, the lock free
ThrInit ==
    /\ counter = 0
    /\ counter_safe = 0
    /\ counter_lock = FALSE
    /\ num_threads \in 1..MaxThreads
    /\ increments_per_thread \in 0..MaxIncr
    /\ thr_pc = [t \in Threads |-> "new"]
    /\ thr_tmp = [t \in Threads |-> 0]
    /\ thr_left = [t \in Threads |-> 0]
    /\ thr_started = 0
    /\ thr_joined = 0

ThrIdle ==
    /\ counter = 0
    /\ counter_safe = 0
    /\ counter_lock = FALSE
    /\ num_threads = 1
    /\ increments_per_thread = 0
    /\ thr_pc = [t \in Threads |-> "new"]
    /\ thr_tmp = [t \in Threads |-> 0]
    /\ thr_left = [t \in Threads |-> 0]
    /\ thr_started = 0
    /\ thr_joined = 0

\* thread.start() of the next thread, with args=(increments_per_thread,)
StartThread ==
    /\ thr_started < num_threads
    /\ thr_started' = thr_started + 1
    /\ thr_pc' = [thr_pc EXCEPT ![thr_started + 1] = "for"]
    /\ thr_left' = [thr_left EXCEPT ![thr_started + 1] = increments_per_thread]
    /\ UNCHANGED <<counter, counter_safe, counter_lock, num_threads,
                   increments_per_thread, thr_tmp, thr_joined>>
    /\ UNCHANGED <<ds_vars, q_vars, avg_vars>>

\* thread.join() of the next thread, once every thread has been started
JoinThread ==
    /\ thr_started = num_threads
    /\ thr_joined < num_threads
    /\ thr_pc[thr_joined + 1] = "done"
    /\ thr_joined' = thr_joined + 1
    /\ UNCHANGED <<counter, counter_safe, counter_lock, num_threads,
                   increments_per_thread, thr_pc, thr_tmp, thr_left, thr_started>>
    /\ UNCHANGED <<ds_vars, q_vars, avg_vars>>

\* for _ in range(n): the next round, entered at pc body, or the end
\* faulty variant: range(n + 1)
ForRound_one_more(t, body) ==
    /\ thr_pc[t] = "for"
    /\ IF thr_left[t] >= 0
       THEN /\ thr_pc' = [thr_pc EXCEPT ![t] = body]
            /\ thr_left' = [thr_left EXCEPT ![t] = @ - 1]
       ELSE /\ thr_pc' = [thr_pc EXCEPT ![t] = "done"]
            /\ UNCHANGED thr_left
    /\ UNCHANGED <<counter, counter_safe, counter_lock, num_threads,
                   increments_per_thread, thr_tmp, thr_started, thr_joined>>

ForRound(t, body) ==
    /\ thr_pc[t] = "for"
    /\ IF thr_left[t] > 0
       THEN /\ thr_pc' = [thr_pc EXCEPT ![t] = body]
            /\ thr_left' = [thr_left EXCEPT ![t] = @ - 1]
       ELSE /\ thr_pc' = [thr_pc EXCEPT ![t] = "done"]
            /\ UNCHANGED thr_left
    /\ UNCHANGED <<counter, counter_safe, counter_lock, num_threads,
                   increments_per_thread, thr_tmp, thr_started, thr_joined>>

\* increment_unsafe, line 63
UnsafeFor ==
    /\ \E t \in Threads : ForRound(t, "load")
    /\ UNCHANGED <<ds_vars, q_vars, avg_vars>>

\* increment_unsafe, line 68, counter += 1: the read of the global
UnsafeLoad ==
    /\ \E t \in Threads :
           /\ thr_pc[t] = "load"
           /\ thr_tmp' = [thr_tmp EXCEPT ![t] = counter]
           /\ thr_pc' = [thr_pc EXCEPT ![t] = "store"]
           /\ UNCHANGED <<counter, counter_safe, counter_lock, num_threads,
                          increments_per_thread, thr_left, thr_started, thr_joined>>
    /\ UNCHANGED <<ds_vars, q_vars, avg_vars>>

\* increment_unsafe, line 68, counter += 1: the add and the write back
UnsafeStore ==
    /\ \E t \in Threads :
           /\ thr_pc[t] = "store"
           /\ counter' = thr_tmp[t] + 1
           /\ thr_pc' = [thr_pc EXCEPT ![t] = "for"]
           /\ UNCHANGED <<counter_safe, counter_lock, num_threads,
                          increments_per_thread, thr_tmp, thr_left, thr_started,
                          thr_joined>>
    /\ UNCHANGED <<ds_vars, q_vars, avg_vars>>

\* increment_safe, line 113
SafeFor ==
    /\ \E t \in Threads : ForRound(t, "acquire")
    /\ UNCHANGED <<ds_vars, q_vars, avg_vars>>

\* Lock.acquire() returns only when the lock is not held
\* faulty variant: acquire does not wait
LockFree_never_waits(lock) == TRUE

LockFree(lock) == lock = FALSE

\* increment_safe, line 114: with counter_lock, on entry
SafeAcquire ==
    /\ \E t \in Threads :
           /\ thr_pc[t] = "acquire"
           /\ LockFree(counter_lock)
           /\ counter_lock' = TRUE
           /\ thr_pc' = [thr_pc EXCEPT ![t] = "load"]
           /\ UNCHANGED <<counter, counter_safe, num_threads, increments_per_thread,
                          thr_tmp, thr_left, thr_started, thr_joined>>
    /\ UNCHANGED <<ds_vars, q_vars, avg_vars>>

\* increment_safe, line 115, counter_safe += 1: the read of the global
SafeLoad ==
    /\ \E t \in Threads :
           /\ thr_pc[t] = "load"
           /\ thr_tmp' = [thr_tmp EXCEPT ![t] = counter_safe]
           /\ thr_pc' = [thr_pc EXCEPT ![t] = "store"]
           /\ UNCHANGED <<counter, counter_safe, counter_lock, num_threads,
                          increments_per_thread, thr_left, thr_started, thr_joined>>
    /\ UNCHANGED <<ds_vars, q_vars, avg_vars>>

\* increment_safe, line 115, counter_safe += 1: the add and the write back
SafeStore ==
    /\ \E t \in Threads :
           /\ thr_pc[t] = "store"
           /\ counter_safe' = thr_tmp[t] + 1
           /\ thr_pc' = [thr_pc EXCEPT ![t] = "release"]
           /\ UNCHANGED <<counter, counter_lock, num_threads, increments_per_thread,
                          thr_tmp, thr_left, thr_started, thr_joined>>
    /\ UNCHANGED <<ds_vars, q_vars, avg_vars>>

\* increment_safe, line 114: with counter_lock, on exit
SafeRelease ==
    /\ \E t \in Threads :
           /\ thr_pc[t] = "release"
           /\ counter_lock' = FALSE
           /\ thr_pc' = [thr_pc EXCEPT ![t] = "for"]
           /\ UNCHANGED <<counter, counter_safe, num_threads, increments_per_thread,
                          thr_tmp, thr_left, thr_started, thr_joined>>
    /\ UNCHANGED <<ds_vars, q_vars, avg_vars>>

(***************************************************************************)
(* multiprocessing_basics: a producer process and a consumer process share *)
(* a multiprocessing.Queue. An object in the queue is a record: an int     *)
(* with its value, or None.                                                *)
(***************************************************************************)
PyInt(n) == [kind |-> "int", val |-> n]

PyNone == [kind |-> "None", val |-> 0]

\* queue_communication, line 167
DemoItems == <<1, 2, 3, 4, 5>>

\* the lists handed to the producer: every list of up to MaxItems ints of
\* 1..MaxItem, and the list of queue_communication
ItemsInputs == UNION {[1..n -> 1..MaxItem] : n \in 0..MaxItems} \cup {DemoItems}

\* consumer, line 153: item is None
IsSentinel(item) == item.kind = "None"

\* queue.get() on a queue that holds something: the object got and the rest
\* faulty variant: the newest object is got
QueueGet_newest(q) == [item |-> Last(q), rest |-> SubSeq(q, 1, Len(q) - 1)]

QueueGet(q) == [item |-> Head(q), rest |-> Tail(q)]

QInit ==
    /\ queue = << >>
    /\ items \in ItemsInputs
    /\ prod_pc = "new"
    /\ prod_i = 0
    /\ cons_pc = "new"
    /\ consumed = << >>
    /\ q_main = "start_prod"

QIdle ==
    /\ queue = << >>
    /\ items = << >>
    /\ prod_pc = "new"
    /\ prod_i = 0
    /\ cons_pc = "new"
    /\ consumed = << >>
    /\ q_main = "start_prod"

\* queue_communication, line 174
StartProducer ==
    /\ q_main = "start_prod"
    /\ q_main' = "start_cons"
    /\ prod_pc' = "run"
    /\ UNCHANGED <<queue, items, prod_i, cons_pc, consumed>>
    /\ UNCHANGED <<ds_vars, thr_vars, avg_vars>>

\* queue_communication, line 175
StartConsumer ==
    /\ q_main = "start_cons"
    /\ q_main' = "join_prod"
    /\ cons_pc' = "run"
    /\ UNCHANGED <<queue, items, prod_pc, prod_i, consumed>>
    /\ UNCHANGED <<ds_vars, thr_vars, avg_vars>>

\* queue_communication, line 178: returns once the producer has ended
JoinProducer ==
    /\ q_main = "join_prod"
    /\ prod_pc = "done"
    /\ q_main' = "join_cons"
    /\ UNCHANGED <<queue, items, prod_pc, prod_i, cons_pc, consumed>>
    /\ UNCHANGED <<ds_vars, thr_vars, avg_vars>>

\* queue_communication, line 179: returns once the consumer has ended
JoinConsumer ==
    /\ q_main = "join_cons"
    /\ cons_pc = "done"
    /\ q_main' = "end"
    /\ UNCHANGED <<queue, items, prod_pc, prod_i, cons_pc, consumed>>
    /\ UNCHANGED <<ds_vars, thr_vars, avg_vars>>

\* producer, lines 135-137: the next item is put
ProducerPut ==
    /\ prod_pc = "run"
    /\ prod_i < Len(items)
    /\ queue' = Append(queue, PyInt(items[prod_i + 1]))
    /\ prod_i' = prod_i + 1
    /\ UNCHANGED <<items, prod_pc, cons_pc, consumed, q_main>>
    /\ UNCHANGED <<ds_vars, thr_vars, avg_vars>>

\* producer, line 139: the sentinel is put after the last item
ProducerSentinel ==
    /\ prod_pc = "run"
    /\ prod_i = Len(items)
    /\ queue' = Append(queue, PyNone)
    /\ prod_pc' = "done"
    /\ UNCHANGED <<items, prod_i, cons_pc, consumed, q_main>>
    /\ UNCHANGED <<ds_vars, thr_vars, avg_vars>>

\* consumer, lines 151-156: queue.get() blocks while the queue is empty; the
\* sentinel ends the loop, any other item is consumed
ConsumerGet ==
    /\ cons_pc = "run"
    /\ queue # << >>
    /\ LET got == QueueGet(queue)
       IN  /\ queue' = got.rest
           /\ IF IsSentinel(got.item)
              THEN cons_pc' = "done" /\ UNCHANGED consumed
              ELSE consumed' = Append(consumed, got.item.val) /\ UNCHANGED cons_pc
    /\ UNCHANGED <<items, prod_pc, prod_i, q_main>>
    /\ UNCHANGED <<ds_vars, thr_vars, avg_vars>>

(***************************************************************************)
(* statistics.calculate_average(data, field). The object a record stores   *)
(* under the field is an int, a str (val is its place in Strings) or None. *)
(***************************************************************************)
TypeError == "TypeError"

\* the strings in use: one that float() accepts and the one of
\* test_calculate_average_non_numeric_raises_error
Strings == <<"2", "thirty">>

PyStr(j) == [kind |-> "str", val |-> j]

\* a record of data: does it have the field, and the object under it
HasField(obj) == [has |-> TRUE, value |-> obj]

NoField == [has |-> FALSE, value |-> PyNone]

Records ==
    {HasField(PyInt(n)) : n \in 0..MaxAge}
        \cup {HasField(PyStr(j)) : j \in 1..Len(Strings)}
        \cup {HasField(PyNone), NoField}

DataInputs == UNION {[1..n -> Records] : n \in 0..MaxRecords}

\* float(text) for the strings in use
StrToFloat(text) ==
    IF text = "2" THEN [val |-> 2, exc |-> None]
    ELSE [val |-> 0, exc |-> ValueError]

\* float(obj): the number, or the exception raised
float(obj) ==
    IF obj.kind = "int" THEN [val |-> obj.val, exc |-> None]
    ELSE IF obj.kind = "str" THEN StrToFloat(Strings[obj.val])
    ELSE [val |-> 0, exc |-> TypeError]

\* line 38: except (ValueError, TypeError)
\* faulty variant: except ValueError
Caught_value_error_only(exc) == exc = ValueError

Caught(exc) == exc \in {ValueError, TypeError}

\* sum(values)
RECURSIVE sum(_)
sum(values) == IF values = << >> THEN 0 ELSE Head(values) + sum(Tail(values))

AvgInit ==
    /\ avg_data \in DataInputs
    /\ avg_i = 0
    /\ avg_values = << >>
    /\ avg_pc = "call"
    /\ avg_ret = << >>
    /\ avg_exc = None

AvgIdle ==
    /\ avg_data = << >>
    /\ avg_i = 0
    /\ avg_values = << >>
    /\ avg_pc = "call"
    /\ avg_ret = << >>
    /\ avg_exc = None

\* lines 28-31: empty data raises, else values = []
AvgCall ==
    /\ avg_pc = "call"
    /\ IF avg_data = << >>
       THEN avg_exc' = ValueError /\ avg_pc' = "done"
       ELSE avg_exc' = avg_exc /\ avg_pc' = "for"
    /\ avg_values' = << >>
    /\ UNCHANGED <<avg_data, avg_i, avg_ret>>
    /\ UNCHANGED <<ds_vars, thr_vars, q_vars>>

\* lines 32-39: one record
AvgRecord ==
    /\ avg_pc = "for"
    /\ avg_i < Len(avg_data)
    /\ LET record == avg_data[avg_i + 1]
           f == float(record.value)
       IN  IF ~record.has
           THEN /\ avg_exc' = ValueError
                /\ avg_pc' = "done"
                /\ UNCHANGED <<avg_values, avg_i>>
           ELSE IF f.exc # None
           THEN /\ avg_exc' = (IF Caught(f.exc) THEN ValueError ELSE f.exc)
                /\ avg_pc' = "done"
                /\ UNCHANGED <<avg_values, avg_i>>
           ELSE /\ avg_values' = Append(avg_values, f.val)
                /\ avg_i' = avg_i + 1
                /\ UNCHANGED <<avg_exc, avg_pc>>
    /\ UNCHANGED <<avg_data, avg_ret>>
    /\ UNCHANGED <<ds_vars, thr_vars, q_vars>>

\* line 41: return sum(values) / len(values)
AvgReturn ==
    /\ avg_pc = "for"
    /\ avg_i = Len(avg_data)
    /\ avg_ret' = <<sum(avg_values), Len(avg_values)>>
    /\ avg_pc' = "done"
    /\ UNCHANGED <<avg_data, avg_i, avg_values, avg_exc>>
    /\ UNCHANGED <<ds_vars, thr_vars, q_vars>>

\* DataLab at rest, in a specification that is about another structure
LabIdle == ThrIdle /\ QIdle /\ AvgIdle

\* the structures of data-structure/ at rest
DSIdle == LRUIdle /\ SchedInit /\ KSIdle /\ SWIdle

(***************************************************************************)
(* Specifications                                                          *)
(***************************************************************************)
\* get and put calls on one LRUCache
InitLRU == LRUInit /\ SchedInit /\ KSIdle /\ SWIdle /\ LabIdle

LRUGet == Get /\ UNCHANGED <<sched_vars, ks_vars, sw_vars, lab_vars>>

LRUPut == Put /\ UNCHANGED <<sched_vars, ks_vars, sw_vars, lab_vars>>

NextLRU == LRUGet \/ LRUPut

SpecLRU == InitLRU /\ [][NextLRU]_vars

\* get and put calls on one LRUCache, None among the values put
LRUPutNone == PutNone /\ UNCHANGED <<sched_vars, ks_vars, sw_vars, lab_vars>>

NextLRUNone == LRUGet \/ LRUPut \/ LRUPutNone

SpecLRUNone == InitLRU /\ [][NextLRUNone]_vars

\* any interleaving of add_task and get_next_task on one TaskScheduler
InitSched == LRUIdle /\ SchedInit /\ KSIdle /\ SWIdle /\ LabIdle

SchedAddTask == AddTask /\ UNCHANGED <<lru_vars, ks_vars, sw_vars, lab_vars>>

SchedGetNextTask == GetNextTask /\ UNCHANGED <<lru_vars, ks_vars, sw_vars, lab_vars>>

NextSched == SchedAddTask \/ SchedGetNextTask

SpecSched == InitSched /\ [][NextSched]_vars

\* add_task calls, then get_next_task until the TaskScheduler is empty
DrainAddTask == DrainAdd /\ UNCHANGED <<lru_vars, ks_vars, sw_vars, lab_vars>>

DrainGetNextTask == DrainGet /\ UNCHANGED <<lru_vars, ks_vars, sw_vars, lab_vars>>

NextDrain == DrainAddTask \/ DrainGetNextTask

SpecDrain == InitSched /\ [][NextDrain]_vars

\* any interleaving of add_task and get_next_task, with the pops recorded
TraceAddTask == TraceAdd /\ UNCHANGED <<lru_vars, ks_vars, sw_vars, lab_vars>>

TraceGetNextTask == TraceGet /\ UNCHANGED <<lru_vars, ks_vars, sw_vars, lab_vars>>

NextTrace == TraceAddTask \/ TraceGetNextTask

SpecTrace == InitSched /\ [][NextTrace]_vars

\* add and get_smallest calls on one KSmallest
InitKS == LRUIdle /\ SchedInit /\ KSInit /\ SWIdle /\ LabIdle

KSAdd == Add /\ UNCHANGED <<lru_vars, sched_vars, sw_vars, lab_vars>>

KSGetSmallest == GetSmallest /\ UNCHANGED <<lru_vars, sched_vars, sw_vars, lab_vars>>

NextKS == KSAdd \/ KSGetSmallest

SpecKS == InitKS /\ [][NextKS]_vars

\* one call of sliding_window_max, step by step
InitSW == LRUIdle /\ SchedInit /\ KSIdle /\ SWInit /\ LabIdle

SWCall == Call /\ UNCHANGED <<lru_vars, sched_vars, ks_vars, lab_vars>>

SWFor == For /\ UNCHANGED <<lru_vars, sched_vars, ks_vars, lab_vars>>

SWExpire == Expire /\ UNCHANGED <<lru_vars, sched_vars, ks_vars, lab_vars>>

SWShrink == Shrink /\ UNCHANGED <<lru_vars, sched_vars, ks_vars, lab_vars>>

SWAppendAndReport == AppendAndReport /\ UNCHANGED <<lru_vars, sched_vars, ks_vars, lab_vars>>

NextSW == SWCall \/ SWFor \/ SWExpire \/ SWShrink \/ SWAppendAndReport

SpecSW == InitSW /\ [][NextSW]_vars

\* the same run, executed to its end: the interpreter takes the next step of
\* the function as long as there is one
FairSW == SpecSW /\ WF_vars(NextSW)

\* race_condition_demo: the threads run increment_unsafe
InitThr == DSIdle /\ ThrInit /\ QIdle /\ AvgIdle

NextRace == StartThread \/ JoinThread \/ UnsafeFor \/ UnsafeLoad \/ UnsafeStore

SpecRace == InitThr /\ [][NextRace]_vars

\* thread_safe_demo: the threads run increment_safe
NextLock ==
    StartThread \/ JoinThread \/ SafeFor \/ SafeAcquire \/ SafeLoad \/ SafeStore
        \/ SafeRelease

SpecLock == InitThr /\ [][NextLock]_vars

\* queue_communication: the parent, the producer and the consumer
InitQueue == DSIdle /\ ThrIdle /\ QInit /\ AvgIdle

NextQueue ==
    StartProducer \/ StartConsumer \/ JoinProducer \/ JoinConsumer
        \/ ProducerPut \/ ProducerSentinel \/ ConsumerGet

SpecQueue == InitQueue /\ [][NextQueue]_vars

\* the operating system lets each of the three processes run again and again
FairQueue ==
    /\ SpecQueue
    /\ WF_vars(StartProducer \/ StartConsumer \/ JoinProducer \/ JoinConsumer)
    /\ WF_vars(ProducerPut \/ ProducerSentinel)
    /\ WF_vars(ConsumerGet)

\* one call of calculate_average
InitAvg == DSIdle /\ ThrIdle /\ QIdle /\ AvgInit

NextAvg == AvgCall \/ AvgRecord \/ AvgReturn

SpecAvg == InitAvg /\ [][NextAvg]_vars

(***************************************************************************)
(* LRUCache: what the claims speak of                                      *)
(***************************************************************************)
LastCall == Last(lru_hist)

PriorCalls == SubSeq(lru_hist, 1, Len(lru_hist) - 1)

\* a call that counts as a use of its key: a put, or a get that hit
IsUse(call) == call.exc = None /\ (call.op = "put" \/ call.hit)

\* the position in h of the most recent use of key (0: never used)
LastUse(h, key) ==
    LET S == {j \in 1..Len(h) : h[j].key = key /\ IsUse(h[j])}
    IN  IF S = {} THEN 0 ELSE CHOOSE j \in S : \A m \in S : m <= j

\* the value of the most recent put of key in h
LastPutValue(h, key) ==
    LET S == {j \in 1..Len(h) : h[j].key = key /\ h[j].op = "put" /\ h[j].exc = None}
    IN  IF S = {} THEN None ELSE h[CHOOSE j \in S : \A m \in S : m <= j].value

\* the held keys whose most recent use is the oldest
LeastRecentlyUsed(h, held) ==
    {x \in held : \A y \in held : LastUse(h, x) <= LastUse(h, y)}

Without(s, x) == SelectSeq(s, LAMBDA y : y # x)

PutOfNewKey == lru_hist # << >> /\ LastCall.op = "put" /\ ~LastCall.hit

PutOfHeldKey == lru_hist # << >> /\ LastCall.op = "put" /\ LastCall.hit

GetOfHeldKey == lru_hist # << >> /\ LastCall.op = "get" /\ LastCall.hit

WasFull == Cardinality(DOMAIN lru_pre.cache) = lru_pre.capacity

Removed == (DOMAIN lru_pre.cache) \ (DOMAIN cache)

\* every call so far was a put of a key not put before
OnlyFreshPuts ==
    \A j \in 1..Len(lru_hist) :
        /\ lru_hist[j].op = "put"
        /\ \A m \in 1..(j - 1) : lru_hist[m].key # lru_hist[j].key

\* the calls so far were put(a), put(b), get(a), put(c) for distinct a, b, c
RefreshScenario ==
    /\ Len(lru_hist) = 4
    /\ lru_hist[1].op = "put" /\ lru_hist[2].op = "put"
    /\ lru_hist[3].op = "get" /\ lru_hist[4].op = "put"
    /\ lru_hist[3].key = lru_hist[1].key
    /\ Cardinality({lru_hist[1].key, lru_hist[2].key, lru_hist[4].key}) = 3

(***************************************************************************)
(* Claims on LRUCache, checked under SpecLRU                               *)
(***************************************************************************)
\* C1: with capacity >= 1, a put of a key that is not cached, into a full cache, removes exactly
\* the one held key whose most recent successful get or put is the oldest and
\* inserts the new key; with room left it removes nothing. After capacity+1
\* puts of distinct keys into an empty cache, get misses on the first key and
\* hits on each of the others.
C1_PutEvictsLeastRecentlyUsed ==
    ctor_capacity >= 1 =>
    /\ PutOfNewKey =>
          /\ LastCall.exc = None
          /\ IF WasFull
             THEN /\ Cardinality(Removed) = 1
                  /\ Removed = LeastRecentlyUsed(PriorCalls, DOMAIN lru_pre.cache)
                  /\ DOMAIN cache = ((DOMAIN lru_pre.cache) \ Removed) \cup {LastCall.key}
             ELSE DOMAIN cache = (DOMAIN lru_pre.cache) \cup {LastCall.key}
    /\ (OnlyFreshPuts /\ Len(lru_hist) = capacity + 1) =>
          /\ get(LRUSelf, lru_hist[1].key).ret = None
          /\ lru_hist[1].key \notin DOMAIN cache
          /\ \A j \in 2..Len(lru_hist) :
                /\ lru_hist[j].key \in DOMAIN cache
                /\ get(LRUSelf, lru_hist[j].key).ret = lru_hist[j].value

C1_Witness ==
    /\ PutOfNewKey /\ WasFull /\ capacity = 2
    /\ OnlyFreshPuts /\ Len(lru_hist) = capacity + 1
    /\ Cardinality(Removed) = 1

\* C2: with capacity >= 1, the cache never holds more than capacity entries, and capacity is the
\* value the constructor was given.
C2_SizeBounded ==
    ctor_capacity >= 1 =>
    /\ Cardinality(DOMAIN cache) <= capacity
    /\ capacity = ctor_capacity

C2_Witness ==
    /\ PutOfNewKey /\ WasFull
    /\ Cardinality(DOMAIN cache) = capacity
    /\ Len(lru_hist) >= 4

\* C3: a get of a cached key returns the value most recently put for it and
\* makes it the most recently used key; the stored values, the key set and
\* the relative order of the other keys stay as they were. At capacity 2,
\* put(a), put(b), get(a), put(c) evicts b and keeps a.
C3_GetRefreshes ==
    ctor_capacity >= 1 =>
    /\ GetOfHeldKey =>
          /\ LastCall.exc = None
          /\ LastCall.ret = LastPutValue(PriorCalls, LastCall.key)
          /\ Last(access_order) = LastCall.key
          /\ cache = lru_pre.cache
          /\ capacity = lru_pre.capacity
          /\ Without(access_order, LastCall.key)
                = Without(lru_pre.access_order, LastCall.key)
    /\ (RefreshScenario /\ capacity = 2) =>
          /\ Removed = {lru_hist[2].key}
          /\ lru_hist[1].key \in DOMAIN cache

C3_Witness ==
    /\ RefreshScenario /\ capacity = 2
    /\ Removed = {lru_hist[2].key}

\* C8: with capacity >= 1, the recency sequence holds each key of the map exactly once and no
\* other key.
C8_MapAndOrderInSync ==
    ctor_capacity >= 1 =>
    /\ Range(access_order) = DOMAIN cache
    /\ Len(access_order) = Cardinality(DOMAIN cache)

C8_Witness ==
    /\ PutOfHeldKey /\ WasFull /\ capacity = 2
    /\ Len(access_order) = 2
    /\ Len(lru_hist) >= 4
    /\ Last(PriorCalls).op = "put" /\ ~Last(PriorCalls).hit

\* C9: a put of a key that is already cached replaces its value and makes it
\* the most recently used key; nothing is evicted, even in a full cache: the
\* key set and the size are unchanged, and so are the values of the other keys.
C9_PutOfHeldKeyEvictsNothing ==
    (ctor_capacity >= 1 /\ PutOfHeldKey) =>
        /\ LastCall.exc = None
        /\ DOMAIN cache = DOMAIN lru_pre.cache
        /\ Cardinality(DOMAIN cache) = Cardinality(DOMAIN lru_pre.cache)
        /\ cache[LastCall.key] = LastCall.value
        /\ Last(access_order) = LastCall.key
        /\ \A y \in (DOMAIN cache) \ {LastCall.key} : cache[y] = lru_pre.cache[y]

C9_Witness ==
    /\ PutOfHeldKey /\ WasFull /\ capacity = 2
    /\ lru_pre.cache[LastCall.key] # LastCall.value
    /\ Head(lru_pre.access_order) = LastCall.key
    /\ Head(access_order) # LastCall.key

\* C10: with capacity >= 1, put(k, v) followed immediately by get(k) returns v.
C10_PutThenGet ==
    (/\ ctor_capacity >= 1
     /\ Len(lru_hist) >= 2
     /\ LastCall.op = "get"
     /\ Last(PriorCalls).op = "put"
     /\ Last(PriorCalls).key = LastCall.key)
    => (LastCall.exc = None /\ LastCall.ret = Last(PriorCalls).value)

C10_Witness ==
    /\ Len(lru_hist) >= 4
    /\ LastCall.op = "get"
    /\ Last(PriorCalls).op = "put"
    /\ Last(PriorCalls).key = LastCall.key
    /\ LastCall.ret = Last(PriorCalls).value
    /\ LastPutValue(SubSeq(lru_hist, 1, Len(lru_hist) - 2), LastCall.key)
          \notin {None, LastCall.ret}

GetOfMissingKey == lru_hist # << >> /\ LastCall.op = "get" /\ ~LastCall.hit

\* C11: a get of a key that is not cached returns None, raises nothing and
\* leaves the stored entries, the recency order and the capacity as they were.
C11_MissChangesNothing ==
    GetOfMissingKey =>
        /\ LastCall.exc = None
        /\ LastCall.ret = None
        /\ cache = lru_pre.cache
        /\ access_order = lru_pre.access_order
        /\ capacity = lru_pre.capacity

\* a miss on a key that was cached before and has been evicted
C11_Witness ==
    /\ GetOfMissingKey
    /\ capacity = 2
    /\ Len(access_order) = 2
    /\ LastPutValue(PriorCalls, LastCall.key) # None

\* a cache built with a capacity below 1 is never found out by a call that
\* raises: the constructor has refused it, so no get or put of it fails
C21_NoLateFailure ==
    ctor_capacity < 1 =>
        \A j \in 1..Len(lru_hist) : lru_hist[j].exc = None

\* the next put of a key that is not cached has to evict
MustEvict == AtCapacity(LRUSelf)

\* C24: with capacity >= 1 no put (and no get) raises in any state reached
\* by get and put calls: whenever a put of a new key has to evict, the
\* recency sequence is not empty and its oldest key is in the map.
C24_PutNeverRaises ==
    ctor_capacity >= 1 =>
        /\ \A j \in 1..Len(lru_hist) : lru_hist[j].exc = None
        /\ MustEvict =>
              /\ access_order # << >>
              /\ Head(access_order) \in DOMAIN cache
        /\ \A key \in Keys, value \in Values : put(LRUSelf, key, value).exc = None

\* a full cache after an evicting put that followed a hit
C24_Witness ==
    /\ ctor_capacity = 2
    /\ MustEvict
    /\ PutOfNewKey /\ WasFull
    /\ LastCall.exc = None
    /\ Len(lru_hist) >= 4
    /\ \E j \in 1..Len(PriorCalls) : PriorCalls[j].op = "get" /\ PriorCalls[j].hit

\* a get that returns None has missed: whatever value was put, a hit
\* returns something else
C28_NoneOnlyOnMiss ==
    (lru_hist # << >> /\ LastCall.op = "get" /\ LastCall.exc = None
        /\ LastCall.ret = None) => ~LastCall.hit

(***************************************************************************)
(* TaskScheduler: what the claims speak of                                 *)
(***************************************************************************)
\* (priority, task_id) of a before that of b
KeyBefore(a, b) == a[1] < b[1] \/ (a[1] = b[1] /\ a[2] < b[2])

\* the queued entry with the smallest (priority, task_id)
SmallestQueued(heap) ==
    CHOOSE e \in Range(heap) : \A f \in Range(heap) : e = f \/ KeyBefore(e, f)

\* the scheduler was filled by add_task calls and then emptied by get_next_task
FullyDrained == sched_phase = "draining" /\ tasks = << >>

(***************************************************************************)
(* Claims on TaskScheduler                                                 *)
(***************************************************************************)
\* C4 (SpecSched): every get_next_task on a scheduler that is not empty
\* removes exactly one queued entry, the one with the smallest
\* (priority, task_id), and returns its description.
C4_GetNextTaskTakesSmallest ==
    [][(sched_last'.op = "get_next_task" /\ tasks # << >>) =>
          /\ \E e \in Range(tasks) : \A f \in Range(tasks) : e = f \/ KeyBefore(e, f)
          /\ sched_last'.ret = SmallestQueued(tasks)[3]
          /\ Len(tasks') = Len(tasks) - 1
          /\ Range(tasks') = Range(tasks) \ {SmallestQueued(tasks)}
          /\ task_id' = task_id]_vars

C4_Witness ==
    /\ sched_last.op = "get_next_task"
    /\ sched_last.ret # None
    /\ Len(tasks) >= 2
    /\ \E e \in Range(tasks) : e[1] = sched_last.entry[1] /\ e[2] > sched_last.entry[2]
    /\ \E e \in Range(tasks) : e[1] > sched_last.entry[1] /\ e[2] < sched_last.entry[2]

\* C5 (SpecDrain): after add_task calls followed by get_next_task calls until
\* the scheduler is empty, the tasks have come out in non-decreasing priority
\* order, tasks of equal priority in the order they were added, and every
\* added task exactly once. Adding (2,"X"), (1,"Y"), (1,"Z") yields "Y", "Z",
\* "X".
C5_DrainIsStableSort ==
    FullyDrained =>
        /\ Len(sched_drained) = Len(sched_added)
        /\ \A j \in 1..Len(sched_added) :
              Cardinality({m \in 1..Len(sched_drained) :
                              sched_drained[m].entry = sched_added[j]}) = 1
        /\ \A m \in 1..Len(sched_drained) :
              sched_drained[m].ret = sched_drained[m].entry[3]
        /\ \A m, n \in 1..Len(sched_drained) :
              m < n => /\ sched_drained[m].entry[1] <= sched_drained[n].entry[1]
                       /\ sched_drained[m].entry[1] = sched_drained[n].entry[1]
                             => sched_drained[m].entry[2] < sched_drained[n].entry[2]
        /\ sched_added = << <<2, 0, "X">>, <<1, 1, "Y">>, <<1, 2, "Z">> >>
              => [m \in 1..3 |-> sched_drained[m].ret] = <<"Y", "Z", "X">>

C5_Witness ==
    /\ FullyDrained
    /\ Len(sched_added) >= 4
    /\ \E m, n \in 1..Len(sched_added) :
          m < n /\ sched_added[m][1] > sched_added[n][1]
    /\ \E m, n \in 1..Len(sched_added) :
          m < n /\ sched_added[m][1] = sched_added[n][1]
    /\ [m \in 1..Len(sched_drained) |-> sched_drained[m].entry] # sched_added

\* reachable: the example of C5 has been run to the end
C5_ExampleRun ==
    /\ FullyDrained
    /\ sched_added = << <<2, 0, "X">>, <<1, 1, "Y">>, <<1, 2, "Z">> >>

\* the queued entries carry pairwise distinct task_ids below the counter
DistinctIdsBelowCounter ==
    /\ \A e \in Range(tasks) : e[2] >= 0 /\ e[2] < task_id
    /\ \A m, n \in 1..Len(tasks) : m # n => tasks[m][2] # tasks[n][2]

\* C13 (SpecSched): task_id starts at 0; every add_task gives the new entry
\* the current task_id and raises task_id by exactly one; get_next_task never
\* changes task_id; so the queued entries always carry pairwise distinct
\* task_ids smaller than task_id, also when tasks were popped in between.
C13_TaskIdMonotonic ==
    [][/\ sched_last'.op = "add_task" =>
             /\ task_id' = task_id + 1
             /\ sched_last'.entry[2] = task_id
             /\ Range(tasks') = Range(tasks) \cup {sched_last'.entry}
             /\ Len(tasks') = Len(tasks) + 1
       /\ sched_last'.op = "get_next_task" => task_id' = task_id
       /\ DistinctIdsBelowCounter']_vars

\* an add_task after two tasks were popped: the new entry got the counter,
\* not a number set free by the pops
C13_Witness ==
    /\ sched_last.op = "add_task"
    /\ Len(tasks) >= 2
    /\ Len(tasks) + 2 <= task_id
    /\ sched_last.entry[2] = task_id - 1
    /\ sched_last.entry \in Range(tasks)

\* C14 (SpecSched): get_next_task on an empty scheduler returns None and
\* leaves tasks and task_id as they were; an add_task that follows it queues
\* its task under the unchanged counter as on any empty scheduler.
C14_EmptyPopReturnsNone ==
    [][/\ (sched_last'.op = "get_next_task" /\ tasks = << >>) =>
             /\ sched_last'.ret = None
             /\ tasks' = << >>
             /\ task_id' = task_id
       /\ (sched_last.op = "get_next_task" /\ sched_last.ret = None
             /\ sched_last'.op = "add_task") =>
             /\ tasks' = << sched_last'.entry >>
             /\ sched_last'.entry[2] = task_id
             /\ task_id' = task_id + 1]_vars

\* a pop that found the scheduler emptied by earlier pops
C14_Witness ==
    /\ sched_last.op = "get_next_task"
    /\ sched_last.ret = None
    /\ tasks = << >>
    /\ task_id >= 2

\* the tasks returned so far come out in non-decreasing (priority, task_id)
\* order, whatever the interleaving of add_task and get_next_task
C12_PopsNonDecreasing ==
    \A m, n \in 1..Len(sched_drained) :
        m < n => ~KeyBefore(sched_drained[n].entry, sched_drained[m].entry)

\* the task popped at position n was already queued when the task at
\* position m was popped
QueuedAtPop(m, n) == sched_drained[n].entry[2] < sched_drained[m].counter

\* C12 (SpecTrace), amended: of two tasks returned by get_next_task, the one
\* returned first precedes the other by (priority, task_id) whenever the
\* other was already queued when the first was returned; a task added after
\* a pop may precede tasks popped before it was added.
C12_PopsOrderedAmongQueued ==
    \A m, n \in 1..Len(sched_drained) :
        (m < n /\ QueuedAtPop(m, n)) =>
            KeyBefore(sched_drained[m].entry, sched_drained[n].entry)

\* three pops with an add between the first and the last: the last was queued
\* at the first pop, the second was not and precedes the first
C12_Witness ==
    /\ Len(sched_drained) >= 3
    /\ QueuedAtPop(1, 3)
    /\ ~QueuedAtPop(1, 2)
    /\ KeyBefore(sched_drained[2].entry, sched_drained[1].entry)
    /\ sched_drained[1].entry[1] = sched_drained[3].entry[1]

\* an entry, and a scheduler, with every description replaced by one and
\* the same
Blind(e) == <<e[1], e[2], "X">>

BlindHeap(heap) == [j \in 1..Len(heap) |-> Blind(heap[j])]

BlindSelf == [tasks |-> BlindHeap(tasks), task_id |-> task_id]

\* C29 (SpecSched): no two queued entries share a task_id, so Python's <
\* on two queued entries, or on a new entry and a queued one, is decided by
\* (priority, task_id); what add_task and get_next_task do to the queue and
\* which entry is popped do not depend on the descriptions; entries of equal
\* priority and equal description are both kept, and the one added first is
\* popped first.
C29_OrderIgnoresDescriptions ==
    /\ \A m, n \in 1..Len(tasks) :
          m # n => /\ tasks[m][2] # tasks[n][2]
                   /\ TupleLT(tasks[m], tasks[n]) = KeyBefore(tasks[m], tasks[n])
    /\ \A priority \in Priorities, description \in Descriptions :
          LET new == <<priority, task_id, description>>
          IN  /\ \A e \in Range(tasks) :
                    /\ TupleLT(new, e) = KeyBefore(new, e)
                    /\ TupleLT(e, new) = KeyBefore(e, new)
              /\ BlindHeap(add_task(SchedSelf, priority, description).self.tasks)
                    = add_task(BlindSelf, priority, "X").self.tasks
              /\ Len(add_task(SchedSelf, priority, description).self.tasks)
                    = Len(tasks) + 1
    /\ tasks # << >> =>
          LET out == get_next_task(SchedSelf)
          IN  /\ Blind(out.entry) = get_next_task(BlindSelf).entry
              /\ BlindHeap(out.self.tasks) = get_next_task(BlindSelf).self.tasks
              /\ \A f \in Range(out.self.tasks) :
                    f[1] = out.entry[1] => out.entry[2] < f[2]

\* a pop took the older of two tasks of equal priority and description; the
\* younger one and a third of the same kind are queued
C29_Witness ==
    /\ sched_last.op = "get_next_task"
    /\ sched_last.ret # None
    /\ Cardinality({m \in 1..Len(tasks) :
                       /\ tasks[m][1] = sched_last.entry[1]
                       /\ tasks[m][3] = sched_last.entry[3]
                       /\ tasks[m][2] > sched_last.entry[2]}) >= 2

(***************************************************************************)
(* Claims on KSmallest, checked under SpecKS                               *)
(***************************************************************************)
\* the n smallest of the numbers added that are >= v, counted as a multiset,
\* in ascending order (all of them when there are fewer than n)
RECURSIVE SmallestAdded(_, _)
SmallestAdded(v, n) ==
    IF n <= 0 \/ v > MaxNum THEN << >>
    ELSE LET c == IF ks_seen[v] < n THEN ks_seen[v] ELSE n
         IN  [j \in 1..c |-> v] \o SmallestAdded(v + 1, n - c)

\* each of 5, 2, 8, 1, 9, 3, 7 has been added once, and nothing else
DemoStreamAdded ==
    ks_seen = [n \in Nums |-> IF n \in {5, 2, 8, 1, 9, 3, 7} THEN 1 ELSE 0]

\* C6: for k >= 1, get_smallest returns in ascending order exactly the k
\* smallest numbers added so far, counted as a multiset (all of them when
\* fewer than k were added), and no add raises. For k = 3 and the stream
\* 5, 2, 8, 1, 9, 3, 7 that is [1, 2, 3].
C6_KSmallestOfStream ==
    ks_k >= 1 =>
        /\ ks_last.exc = None
        /\ get_smallest(KSSelf) = SmallestAdded(1, ks_k)
        /\ (ks_k = 3 /\ DemoStreamAdded) => get_smallest(KSSelf) = <<1, 2, 3>>

C6_Witness ==
    /\ ks_k = 3
    /\ DemoStreamAdded
    /\ ks_last.op = "get_smallest"
    /\ ks_last.ret = <<1, 2, 3>>

\* how often x occurs in seq
Count(seq, x) == Cardinality({j \in 1..Len(seq) : seq[j] = x})

\* the step is an add(v)
IsAddOf(v) == ks_last'.op = "add" /\ ks_seen' = [ks_seen EXCEPT ![v] = @ + 1]

\* k values are retained and v is at least the largest of them
FullAndNotBelow(v) ==
    /\ ks_heap # << >>
    /\ Len(ks_heap) = ks_k
    /\ \A x \in Range(ks_heap) : v >= 0 - x

\* C15: an add(v) on a KSmallest that retains k values, with v greater than
\* or equal to the largest of them, leaves the heap as it was and raises
\* nothing.
C15_AddOfLargeValueKeepsHeap ==
    [][\A v \in Nums :
          (IsAddOf(v) /\ FullAndNotBelow(v)) =>
              /\ ks_heap' = ks_heap
              /\ ks_k' = ks_k
              /\ ks_last'.exc = None]_vars

\* k + 1 adds of one value: the last met a full heap whose largest value
\* equals the one offered
C15_Witness ==
    /\ ks_last.op = "add"
    /\ ks_k >= 2
    /\ Len(ks_heap) = ks_k
    /\ KSAdded = ks_k + 1
    /\ \E v \in Nums : ks_seen[v] = ks_k + 1

\* C16: get_smallest leaves k and the heap as they were; what it returns is
\* the sorted content of the heap before and after the call, so a second
\* call with no add between returns the same list and later results depend
\* on the adds alone.
C16_GetSmallestReadsOnly ==
    [][ks_last'.op = "get_smallest" =>
          /\ ks_heap' = ks_heap
          /\ ks_k' = ks_k
          /\ ks_seen' = ks_seen
          /\ ks_last'.ret = get_smallest(KSSelf)
          /\ ks_last'.ret = get_smallest([k |-> ks_k', heap |-> ks_heap'])
          /\ ks_last.op = "get_smallest" => ks_last'.ret = ks_last.ret]_vars

\* a get_smallest on a full tracker whose heap order differs from the sorted
\* order returned
C16_Witness ==
    /\ ks_last.op = "get_smallest"
    /\ Len(ks_heap) = ks_k
    /\ KSAdded > ks_k
    /\ ks_k >= 2
    /\ ks_last.ret = get_smallest(KSSelf)
    /\ ks_last.ret # [j \in 1..Len(ks_heap) |-> 0 - ks_heap[j]]

\* the smaller of two numbers
Min(a, b) == IF a < b THEN a ELSE b

\* C17: for k >= 1 the number of retained values after n adds is min(n, k);
\* it never goes down, and a value offered while fewer than k are retained
\* is kept.
C17_RetainedCount ==
    [][ks_k >= 1 =>
          /\ Len(ks_heap') = Min(KSAdded', ks_k')
          /\ Len(ks_heap') <= ks_k
          /\ Len(ks_heap') >= Len(ks_heap)
          /\ \A v \in Nums :
                (IsAddOf(v) /\ Len(ks_heap) < ks_k) =>
                    /\ Len(ks_heap') = Len(ks_heap) + 1
                    /\ Count(ks_heap', 0 - v) = Count(ks_heap, 0 - v) + 1]_vars

\* more adds than k: the heap filled up one by one and stayed at k
C17_Witness ==
    /\ ks_last.op = "add"
    /\ ks_k = MaxK
    /\ KSAdded > ks_k + 1
    /\ Len(ks_heap) = ks_k

\* a KSmallest built with k below 1 is never found out by an add that
\* raises: the constructor has refused it
C22_NoLateAddFailure ==
    ks_k < 1 => ks_last.exc = None

(***************************************************************************)
(* Claims on sliding_window_max, checked under SpecSW                      *)
(***************************************************************************)
\* the largest of nums at the Python positions lo..hi
MaxOf(lo, hi) ==
    CHOOSE m \in {NumAt(p) : p \in lo..hi} : \A p \in lo..hi : NumAt(p) <= m

\* the number of full windows among the first n elements
FullWindows(n) == IF n - sw_k + 1 > 0 THEN n - sw_k + 1 ELSE 0

\* C7: for k >= 1 the list returned has max(0, len(nums) - k + 1) elements,
\* the j-th the maximum of nums[j .. j+k-1]; nothing is reported for the first
\* k-1 elements, and the list is empty when k > len(nums). For k = 3 and
\* [1,3,-1,-3,5,3,6,7] it is [3,3,5,5,6,7].
C7_WindowMaxima ==
    sw_k >= 1 =>
        /\ sw_pc = "done" =>
              /\ Len(result) = FullWindows(Len(nums))
              /\ \A j \in 0..(Len(result) - 1) : result[j + 1] = MaxOf(j, j + sw_k - 1)
              /\ sw_k > Len(nums) => result = << >>
              /\ (sw_k = 3 /\ nums = DemoNums) => result = <<3, 3, 5, 5, 6, 7>>
        /\ (sw_pc # "done" /\ sw_i <= sw_k - 1) => result = << >>

C7_Witness ==
    /\ sw_pc = "done"
    /\ sw_k = 3
    /\ nums = DemoNums
    /\ result = <<3, 3, 5, 5, 6, 7>>

\* reachable: a generated list on which the window slides past its maximum
C7_SlidingWitness ==
    /\ sw_pc = "done"
    /\ sw_k = 2
    /\ Len(nums) = 5
    /\ Len(result) = 4
    /\ sw_removed # << >>
    /\ \E j \in 1..3 : result[j] > result[j + 1]

\* the position last processed, once the for loop has passed an element
Processed == sw_pc = "for" /\ sw_i >= 1

\* the values at the positions held in the deque, front to back
WindowValues == [j \in 1..Len(window) |-> NumAt(window[j])]

WindowStart(i) == IF i - sw_k + 1 > 0 THEN i - sw_k + 1 ELSE 0

\* C19: for k >= 1, after the element at position i has been processed the
\* deque is not empty, its positions increase strictly from front to back
\* and lie in [i-k+1, i], and the value at the front position is the maximum
\* of nums over that window.
C19_FrontIsWindowMax ==
    (Processed /\ sw_k >= 1) =>
        LET i == sw_i - 1
        IN  /\ window # << >>
            /\ \A j \in 1..(Len(window) - 1) : window[j] < window[j + 1]
            /\ \A j \in 1..Len(window) :
                  window[j] >= i - sw_k + 1 /\ window[j] >= 0 /\ window[j] <= i
            /\ Last(window) = i
            /\ NumAt(Head(window)) = MaxOf(WindowStart(i), i)

\* the front position was taken off because it left the window, not because
\* of its value: nothing after it is larger
C19_Witness ==
    /\ Processed
    /\ sw_k >= 2
    /\ Len(window) >= 2
    /\ \E j \in 1..Len(sw_removed) :
          /\ sw_removed[j] <= sw_i - 1 - sw_k
          /\ \A p \in sw_removed[j]..(sw_i - 1) : NumAt(p) <= NumAt(sw_removed[j])

\* the run went past the early return of line 112
LoopEntered == sw_pc # "call" /\ nums # << >> /\ sw_k # 0

\* C20 (FairSW): in a run that enters the loop, position i is appended once,
\* when element i is processed; a position is taken off the deque at most
\* once and only after it was appended, so there are never more removals
\* than elements; every run ends, with every position appended.
C20_EachIndexOnce ==
    /\ [](/\ sw_appended = [j \in 1..Len(sw_appended) |-> j - 1]
          /\ Len(sw_appended) = (IF sw_pc = "call" THEN 0 ELSE sw_i)
          /\ \A m, n \in 1..Len(sw_removed) : m # n => sw_removed[m] # sw_removed[n]
          /\ Range(sw_removed) \subseteq Range(sw_appended)
          /\ Range(window) \cap Range(sw_removed) = {}
          /\ Len(window) + Len(sw_removed) = Len(sw_appended)
          /\ Len(sw_removed) <= Len(nums)
          /\ (sw_pc = "done" /\ LoopEntered) => Len(sw_appended) = Len(nums))
    /\ <>(sw_pc = "done")

\* a finished run in which both loops took entries off the deque
C20_Witness ==
    /\ sw_pc = "done"
    /\ LoopEntered
    /\ Len(nums) = MaxLen
    /\ Len(sw_removed) >= 3
    /\ \E j \in 1..Len(sw_removed) :
          \A p \in sw_removed[j]..(Len(nums) - 1) : NumAt(p) <= NumAt(sw_removed[j])
    /\ \E j \in 1..Len(sw_removed) :
          \E p \in sw_removed[j]..(Len(nums) - 1) : NumAt(p) > NumAt(sw_removed[j])

\* with a window size below 1 no element is processed and no list is
\* returned
C23_SmallWindowRejected ==
    sw_k < 1 => (sw_pc # "done" /\ sw_appended = << >>)

(***************************************************************************)
(* Claims on the shared counters of threading_basics                       *)
(***************************************************************************)
\* every thread has been started and joined
AllJoined == thr_joined = num_threads

\* what the demos print as "Expected"
Expected == num_threads * increments_per_thread

\* the threads inside the block guarded by counter_lock
InLockedBlock == {t \in Threads : thr_pc[t] \in {"load", "store", "release"}}

\* C25 (SpecLock): at most one thread is inside the with block of
\* increment_safe, and the lock is held exactly while one is; once all
\* threads have been joined counter_safe equals num_threads * n.
C25_LockedCounterExact ==
    /\ Cardinality(InLockedBlock) <= 1
    /\ counter_lock = (InLockedBlock # {})
    /\ counter_safe <= Expected
    /\ AllJoined => counter_safe = Expected

\* the most threads and increments, all joined
C25_Witness ==
    /\ AllJoined
    /\ num_threads = MaxThreads
    /\ increments_per_thread = MaxIncr
    /\ counter_safe = MaxThreads * MaxIncr

\* reachable: a thread waits for the lock while another is about to write
C25_Contention ==
    \E t, u \in Threads :
        thr_pc[t] = "store" /\ thr_pc[u] = "acquire" /\ counter_safe >= 1

\* C26 (SpecRace): the counter never exceeds num_threads * n, in
\* particular not after all threads have been joined. (That it can end up
\* smaller is the reachable state C26_Witness.)
C26_UnsafeCounterAtMostExpected ==
    /\ counter <= Expected
    /\ \A t \in Threads : thr_pc[t] = "store" => thr_tmp[t] < Expected
    /\ AllJoined => (counter <= Expected /\ counter >= 0)

\* all threads joined and updates lost
C26_Witness ==
    /\ AllJoined
    /\ num_threads >= 2
    /\ increments_per_thread >= 1
    /\ counter < Expected

(***************************************************************************)
(* Claims on queue_communication                                           *)
(***************************************************************************)
\* the ints waiting in the queue, oldest first
QueuedInts ==
    LET q == SelectSeq(queue, LAMBDA x : ~IsSentinel(x))
    IN  [j \in 1..Len(q) |-> q[j].val]

\* the sentinel has been put, and it has been got
SentinelPut == prod_pc = "done"

SentinelGot == SentinelPut /\ \A j \in 1..Len(queue) : ~IsSentinel(queue[j])

\* C27 (FairQueue): what the consumer has consumed followed by the ints
\* still queued is what the producer has put so far, a prefix of items: each
\* item once, in the order produced; the sentinel is put last and is the
\* last object in the queue; the consumer has stopped exactly when it has
\* got the sentinel, and then it has consumed all of items and the queue is
\* empty; both processes end and the parent joins them.
C27_ConsumerGetsItemsInOrder ==
    /\ [](/\ consumed \o QueuedInts = SubSeq(items, 1, prod_i)
          /\ \A j \in 1..Len(queue) : IsSentinel(queue[j]) => j = Len(queue)
          /\ SentinelPut => prod_i = Len(items)
          /\ (cons_pc = "done") = (cons_pc # "new" /\ SentinelGot)
          /\ cons_pc = "done" => (consumed = items /\ queue = << >>)
          /\ q_main = "end" => (prod_pc = "done" /\ cons_pc = "done"))
    /\ <>(prod_pc = "done" /\ cons_pc = "done" /\ q_main = "end")

\* the demo list consumed to the end
C27_Witness ==
    /\ items = DemoItems
    /\ consumed = DemoItems
    /\ cons_pc = "done"
    /\ q_main = "end"

\* reachable: the producer is ahead, two items wait behind a consumed one
C27_Backlog ==
    /\ Len(consumed) >= 1
    /\ Len(QueuedInts) >= 2
    /\ prod_pc = "done"

(***************************************************************************)
(* Claims on calculate_average, checked under SpecAvg                      *)
(***************************************************************************)
\* the object is a non-numeric string or None
NonNumeric(obj) ==
    \/ obj.kind = "None"
    \/ obj.kind = "str" /\ Strings[obj.val] = "thirty"

\* the three cases of the claim
EmptyData == avg_data = << >>

FieldMissing == \E j \in 1..Len(avg_data) : ~avg_data[j].has

FieldNonNumeric ==
    \E j \in 1..Len(avg_data) : avg_data[j].has /\ NonNumeric(avg_data[j].value)

\* the number a numeric object stands for
NumberOf(obj) == IF obj.kind = "int" THEN obj.val ELSE 2

RECURSIVE Total(_)
Total(j) == IF j = 0 THEN 0 ELSE NumberOf(avg_data[j].value) + Total(j - 1)

C30_Returned ==
    /\ avg_pc = "done"
    /\ avg_ret # << >>
    /\ \E j \in 1..Len(avg_data) : avg_data[j].value.kind = "str"
    /\ \E j \in 1..Len(avg_data) : avg_data[j].value.kind = "int"

====
